---- MODULE Spec2Model ----
(***************************************************************************)
(* A model of the Glyph protocol of flossverse/rustyGlyphs:                *)
(* src/pythonGlyphs.py (codec, validation, etch / mint / transfer and the  *)
(* transaction builder) and src/htlcSwaps.py (the swap engine).            *)
(*                                                                         *)
(* Conventions.                                                            *)
(*  - bytes are sequences of integers 0..255; a str is the sequence of its *)
(*    code points;                                                         *)
(*  - an Optional[int] argument is <<>> for None and <<v>> for the value   *)
(*    v, so that None and 0 stay different although both are falsy;        *)
(*  - a call ends in Return(v) or Raise(e);                                *)
(*  - a Python object whose type matters to its caller is tagged:          *)
(*    PyInt(n), PyTuple(t);                                                *)
(*  - every function is callable under its name, wherever the file's       *)
(*    indentation puts its def; a name that src/htlcSwaps.py uses without  *)
(*    importing it (OP_RETURN, OP_13, select_chain_params, bitcointx) is   *)
(*    the library object of that name, as in src/pythonGlyphs.py.          *)
(***************************************************************************)
EXTENDS Integers, Sequences, FiniteSets, TLC

VARIABLES call,      \* the last call made: its operation, arguments, outcome
          height,    \* the node's block count
          blocks,    \* the chain: blocks[h + 1] is the sequence of transactions of block h
          mempool,   \* transactions sent to the node and not yet mined
          wallet,    \* what the node's listunspent returns, in its order
          sent       \* the calls whose transaction the node accepted, in order

vars == <<call, height, blocks, mempool, wallet, sent>>

chainVars == <<height, blocks, mempool, wallet, sent>>

(***************************************************************************)
(* Initial state                                                           *)
(***************************************************************************)
NoCall == [op |-> "none"]

\* a block's first transaction, which carries no glyphstone
Coinbase == [txid |-> 0, vin |-> <<>>, vout |-> <<>>]

\* the wallets the node may start with: listunspent's answer, amounts in
\* satoshis; one wallet has nothing that reaches the 0.0001 BTC estimate
WalletInputs ==
  { <<[txid |-> 101, vout |-> 0, amount |-> 5000]>>,
    <<[txid |-> 101, vout |-> 0, amount |-> 5000],
      [txid |-> 102, vout |-> 0, amount |-> 20000],
      [txid |-> 103, vout |-> 1, amount |-> 600000000]>> }

InitChain ==
  /\ height = 0
  /\ blocks = << <<Coinbase>> >>
  /\ mempool = <<>>
  /\ wallet \in WalletInputs
  /\ sent = <<>>

Init == call = NoCall /\ InitChain

\* the call returns to its caller, which may make another
ReturnToCaller ==
  /\ call # NoCall
  /\ call' = NoCall
  /\ UNCHANGED chainVars

(***************************************************************************)
(* Python values and outcomes                                              *)
(***************************************************************************)
None == <<>>

Some(v) == <<v>>

IsSet(x) == x # None

\* Python truthiness of an Optional[int]: None and 0 are falsy
Truthy(x) == x # None /\ x[1] # 0

Return(v) == [ok |-> TRUE, val |-> v]

Raise(e) == [ok |-> FALSE, err |-> e]

PyInt(n) == [type |-> "int", value |-> n]

PyTuple(t) == [type |-> "tuple", value |-> t]

\* a, b = v : unpacking anything but a 2-sequence raises TypeError
Unpack2(v) ==
  IF v.type = "tuple" /\ Len(v.value) = 2 THEN Return(v.value) ELSE Raise("TypeError")

(***************************************************************************)
(* Bit operations on non-negative integers                                 *)
(***************************************************************************)
RECURSIVE BitAnd(_, _)
BitAnd(a, b) ==
  IF a = 0 \/ b = 0 THEN 0
  ELSE (a % 2) * (b % 2) + 2 * BitAnd(a \div 2, b \div 2)

RECURSIVE BitOr(_, _)
BitOr(a, b) ==
  IF a = 0 THEN b
  ELSE IF b = 0 THEN a
  ELSE ((a % 2) + (b % 2) - (a % 2) * (b % 2)) + 2 * BitOr(a \div 2, b \div 2)

ShiftLeft(a, k) == a * 2^k

ShiftRight(a, k) == a \div 2^k

(***************************************************************************)
(* Varint codec                                                            *)
(***************************************************************************)
\* the while loop of encode_varint and the byte appended after it
RECURSIVE encode_varint_loop(_, _)
encode_varint_loop(i, encoded) ==
  IF i > 127
    THEN encode_varint_loop(ShiftRight(i, 7), Append(encoded, BitOr(BitAnd(i, 127), 128)))
    ELSE Append(encoded, i)

\* the loop stopping one value early: while i >= 127
encode_varint_early(i) ==
  LET RECURSIVE loop(_, _)
      loop(n, encoded) ==
        IF n >= 127
          THEN loop(ShiftRight(n, 7), Append(encoded, BitOr(BitAnd(n, 127), 128)))
          ELSE Append(encoded, n)
  IN IF i < 0 THEN Raise("ValueError") ELSE Return(loop(i, <<>>))

encode_varint(i) ==
  IF i < 0 THEN Raise("ValueError") ELSE Return(encode_varint_loop(i, <<>>))

\* the for loop of decode_varint from the byte at position k on
RECURSIVE decode_varint_loop(_, _, _, _)
decode_varint_loop(encoded, k, decoded, shift) ==
  IF k > Len(encoded) THEN decoded
  ELSE LET byte == encoded[k]
           d == BitOr(decoded, ShiftLeft(BitAnd(byte, 127), shift))
       IN IF BitAnd(byte, 128) = 0 THEN d
          ELSE decode_varint_loop(encoded, k + 1, d, shift + 7)

\* returns the decoded integer, and nothing else
decode_varint(encoded) == PyInt(decode_varint_loop(encoded, 1, 0, 0))

(***************************************************************************)
(* Inputs of the varint codec                                              *)
(***************************************************************************)
MaxSmallVarint == 130

MaxVarintBytes == 3

\* the values around each length boundary 128^k of the encoding
VarintBoundaries ==
  UNION { {128^k - 1, 128^k, 128^k + 1} : k \in 1..(MaxVarintBytes - 1) }
    \cup {128^MaxVarintBytes - 1}

VarintInputs == (0..MaxSmallVarint) \cup VarintBoundaries \cup {255, 256, 300}

\* the integers below zero that encode_varint is given
MaxNegative == 3

\* byte strings of up to two bytes, with and without the continuation bit
TruncationBytes == {0, 1, 127, 128, 129, 255}

DecodeInputs ==
  {<<>>} \cup {<<b>> : b \in TruncationBytes}
    \cup {<<b, c>> : b \in TruncationBytes, c \in TruncationBytes}
    \cup {<<128, 128, c>> : c \in TruncationBytes}

FramingInputs == {0, 1, 127, 128, 300} \cup VarintBoundaries

(***************************************************************************)
(* Name validation and the symbol codec                                    *)
(***************************************************************************)
BASE_OFFSET == 1

MAX_GLYPH_NAME_LENGTH == 26

OrdA == 65

Spacer == 8226

\* str.isupper() and str.isalpha() on one character, for the characters the
\* model draws names from: A..Z, the accented capital U+00C9 and the Greek
\* capital U+03A9 are uppercase letters; a..z and U+00E9 are lowercase
UppercaseLetters == (65..90) \cup {201, 937}

LowercaseLetters == (97..122) \cup {233}

isalpha(c) == c \in UppercaseLetters \cup LowercaseLetters

isupper(c) == c \in UppercaseLetters

\* the body of the for loop of is_valid_glyph_name from position i on
\* (positions count from 1 here, from 0 in the source)
RECURSIVE is_valid_glyph_name_loop(_, _, _)
is_valid_glyph_name_loop(name, i, letter_count) ==
  IF i > Len(name)
    THEN letter_count > 0 /\ letter_count <= MAX_GLYPH_NAME_LENGTH
  ELSE IF isalpha(name[i]) /\ isupper(name[i])
    THEN is_valid_glyph_name_loop(name, i + 1, letter_count + 1)
  ELSE IF name[i] = Spacer
    THEN IF i = 1 \/ i = Len(name) \/ name[i - 1] = Spacer \/ name[i + 1] = Spacer
           THEN FALSE
           ELSE is_valid_glyph_name_loop(name, i + 1, letter_count)
  ELSE FALSE

is_valid_glyph_name(name) ==
  IF name = <<>> \/ Len(name) > MAX_GLYPH_NAME_LENGTH THEN FALSE
  ELSE is_valid_glyph_name_loop(name, 1, 0)

\* symbol.replace(spacer, '')
RECURSIVE remove_spacers(_)
remove_spacers(s) ==
  IF s = <<>> THEN <<>>
  ELSE IF Head(s) = Spacer THEN remove_spacers(Tail(s))
  ELSE <<Head(s)>> \o remove_spacers(Tail(s))

\* for i, c in enumerate(reversed(clean_symbol)): value += ...
RECURSIVE symbol_to_int_loop(_, _, _)
symbol_to_int_loop(clean_symbol, i, value) ==
  IF i >= Len(clean_symbol) THEN value
  ELSE LET c == clean_symbol[Len(clean_symbol) - i]
       IN symbol_to_int_loop(clean_symbol, i + 1,
                             value + (c - OrdA + BASE_OFFSET) * 26^i)

symbol_to_int_zero_based(symbol) ==
  IF ~is_valid_glyph_name(symbol) THEN Raise("ValueError")
  ELSE LET clean == remove_spacers(symbol)
           RECURSIVE loop(_, _)
           loop(i, value) ==
             IF i >= Len(clean) THEN value
             ELSE loop(i + 1, value + (clean[Len(clean) - i] - OrdA) * 26^i)
       IN Return(loop(0, 0))

symbol_to_int(symbol) ==
  IF ~is_valid_glyph_name(symbol) THEN Raise("ValueError")
  ELSE Return(symbol_to_int_loop(remove_spacers(symbol), 0, 0))

\* Python integers beyond 32 bits: the limbs of the integer in base
\* WideBase, the least significant first, none for zero
WideBase == 10000

RECURSIVE WideCarry(_, _)
WideCarry(limbs, carry) ==
  IF limbs = <<>>
    THEN IF carry = 0 THEN <<>>
         ELSE <<carry % WideBase>> \o WideCarry(<<>>, carry \div WideBase)
    ELSE <<(Head(limbs) + carry) % WideBase>>
           \o WideCarry(Tail(limbs), (Head(limbs) + carry) \div WideBase)

RECURSIVE WideTrim(_)
WideTrim(limbs) ==
  IF limbs # <<>> /\ limbs[Len(limbs)] = 0
    THEN WideTrim(SubSeq(limbs, 1, Len(limbs) - 1))
    ELSE limbs

WideOf(n) == WideTrim(WideCarry(<<n>>, 0))

WideLimb(w, i) == IF i <= Len(w) THEN w[i] ELSE 0

WideAdd(a, b) ==
  LET n == IF Len(a) > Len(b) THEN Len(a) ELSE Len(b)
  IN WideTrim(WideCarry([i \in 1..n |-> WideLimb(a, i) + WideLimb(b, i)], 0))

\* w * k for a small k
WideMul(w, k) == WideTrim(WideCarry([i \in 1..Len(w) |-> w[i] * k], 0))

\* 26 ** i
RECURSIVE WidePow26(_)
WidePow26(i) == IF i = 0 THEN <<1>> ELSE WideMul(WidePow26(i - 1), 26)

\* the letters taken from the left: enumerate(clean_symbol)
symbol_to_int_wide_unreversed(symbol) ==
  LET clean == remove_spacers(symbol)
      RECURSIVE loop(_, _)
      loop(i, value) ==
        IF i >= Len(clean) THEN value
        ELSE loop(i + 1, WideAdd(value,
                    WideMul(WidePow26(i), clean[i + 1] - OrdA + BASE_OFFSET)))
  IN IF ~is_valid_glyph_name(symbol) THEN Raise("ValueError")
     ELSE Return(loop(0, <<>>))

\* symbol_to_int in the integers of Python, which have no width
RECURSIVE symbol_to_int_wide_loop(_, _, _)
symbol_to_int_wide_loop(clean_symbol, i, value) ==
  IF i >= Len(clean_symbol) THEN value
  ELSE LET c == clean_symbol[Len(clean_symbol) - i]
       IN symbol_to_int_wide_loop(clean_symbol, i + 1,
            WideAdd(value, WideMul(WidePow26(i), c - OrdA + BASE_OFFSET)))

symbol_to_int_wide(symbol) ==
  IF ~is_valid_glyph_name(symbol) THEN Raise("ValueError")
  ELSE Return(symbol_to_int_wide_loop(remove_spacers(symbol), 0, <<>>))

\* while num > 0: num, remainder = divmod(num - BASE_OFFSET, 26); ...
RECURSIVE int_to_symbol_loop(_, _)
int_to_symbol_loop(num, symbol) ==
  IF num > 0
    THEN int_to_symbol_loop((num - BASE_OFFSET) \div 26,
                            <<OrdA + ((num - BASE_OFFSET) % 26)>> \o symbol)
    ELSE symbol

int_to_symbol_no_offset(num) ==
  LET RECURSIVE loop(_, _)
      loop(n, symbol) ==
        IF n > 0 THEN loop(n \div 26, <<OrdA + (n % 26)>> \o symbol) ELSE symbol
  IN IF num <= 0 THEN Raise("ValueError") ELSE Return(loop(num, <<>>))

int_to_symbol(num) ==
  IF num < 0 THEN Raise("ValueError")
  ELSE IF BASE_OFFSET = 1 /\ num = 0 THEN Raise("ValueError")
  ELSE IF BASE_OFFSET = 0 /\ num = 0 THEN Return(<<OrdA>>)
  ELSE Return(int_to_symbol_loop(num, <<>>))

(***************************************************************************)
(* Inputs of the symbol codec                                              *)
(***************************************************************************)
MaxSymbolInt == 800

MaxBoundaryLetters == 5

MaxNameLen == 3

\* the integer of the last name of k letters, ZZ..Z
RECURSIVE LastOfLength(_)
LastOfLength(k) == IF k = 0 THEN 0 ELSE 26 * (LastOfLength(k - 1) + 1)

SymbolInts ==
  (0..MaxSymbolInt)
    \cup UNION { {LastOfLength(k), LastOfLength(k) + 1} : k \in 1..MaxBoundaryLetters }

\* A, B, Z, the spacer, a lowercase letter, a digit, an accented capital
NameChars == {65, 66, 90, Spacer, 97, 49, 201}

RECURSIVE SeqsUpTo(_, _)
SeqsUpTo(S, n) ==
  IF n = 0 THEN {<<>>}
  ELSE LET shorter == SeqsUpTo(S, n - 1)
       IN shorter \cup {Append(s, c) : s \in {t \in shorter : Len(t) = n - 1}, c \in S}

Repeat(c, n) == [i \in 1..n |-> c]

\* names at the length limit: 26 and 27 letters, 26 and 27 characters with
\* a spacer inside
LongNames ==
  {Repeat(65, MAX_GLYPH_NAME_LENGTH), Repeat(65, MAX_GLYPH_NAME_LENGTH + 1),
   <<65, Spacer>> \o Repeat(66, MAX_GLYPH_NAME_LENGTH - 2),
   <<65, Spacer>> \o Repeat(66, MAX_GLYPH_NAME_LENGTH - 1)}

NameInputs == SeqsUpTo(NameChars, MaxNameLen)

\* "TESTCOIN" and "TEST•COIN"
SeedNames ==
  {<<84, 69, 83, 84, 67, 79, 73, 78>>, <<84, 69, 83, 84, Spacer, 67, 79, 73, 78>>}

(***************************************************************************)
(* The symbol codec and the name validation applied to their inputs        *)
(***************************************************************************)
\* symbol_to_int(int_to_symbol(n))
IntToSymbol ==
  /\ call = NoCall
  /\ \E n \in SymbolInts :
       LET name == int_to_symbol(n)
       IN /\ call' = [op |-> "int_to_symbol", n |-> n, name |-> name,
                      back |-> IF name.ok THEN symbol_to_int(name.val) ELSE name]
          /\ UNCHANGED chainVars

SymbolToInt ==
  /\ call = NoCall
  /\ \E name \in NameInputs \cup {Repeat(65, MAX_GLYPH_NAME_LENGTH + 1)} :
       /\ call' = [op |-> "symbol_to_int", name |-> name, result |-> symbol_to_int(name)]
       /\ UNCHANGED chainVars

IsValidGlyphName ==
  /\ call = NoCall
  /\ \E name \in NameInputs \cup LongNames :
       /\ call' = [op |-> "is_valid_glyph_name", name |-> name,
                   result |-> is_valid_glyph_name(name)]
       /\ UNCHANGED chainVars

SymbolToIntWide ==
  /\ call = NoCall
  /\ \E name \in NameInputs \cup SeedNames :
       /\ call' = [op |-> "symbol_to_int_wide", name |-> name,
                   result |-> symbol_to_int_wide(name)]
       /\ UNCHANGED chainVars

NextSymbol ==
  \/ IntToSymbol
  \/ SymbolToInt
  \/ SymbolToIntWide
  \/ IsValidGlyphName
  \/ ReturnToCaller

SpecSymbol == Init /\ [][NextSymbol]_vars

\* C27: symbol_to_int("TEST•COIN") and symbol_to_int("TESTCOIN") are equal
\* and both are 3299942111.
C27_SeedValue ==
  (call.op = "symbol_to_int_wide" /\ call.name \in SeedNames) =>
    call.result = Return(<<2111, 9994, 32>>)

\* C27 as amended: the two are equal and both are 162415731180; on the short
\* names the integers without width are those of symbol_to_int.
C27_SeedValueOfCode ==
  call.op = "symbol_to_int_wide" =>
    /\ call.name \in SeedNames => call.result = Return(<<1180, 1573, 1624>>)
    /\ Len(call.name) <= MaxNameLen =>
         call.result = IF symbol_to_int(call.name).ok
                         THEN Return(WideOf(symbol_to_int(call.name).val))
                         ELSE symbol_to_int(call.name)

\* the name with the spacer gives the value of the name without it
C27_Witness ==
  /\ call.op = "symbol_to_int_wide"
  /\ call.name = <<84, 69, 83, 84, Spacer, 67, 79, 73, 78>>
  /\ call.result = symbol_to_int_wide(<<84, 69, 83, 84, 67, 79, 73, 78>>)
  /\ call.result.ok

\* C3: for every n >= 1 of the checked range, int_to_symbol(n) is a name that
\* symbol_to_int accepts, and symbol_to_int(int_to_symbol(n)) = n.
C3_SymbolRoundTrip ==
  (call.op = "int_to_symbol" /\ call.n >= 1) =>
    /\ call.name.ok
    /\ is_valid_glyph_name(call.name.val)
    /\ call.back = Return(call.n)

\* a round trip through the first name that is one letter longer than the
\* longest boundary name
C3_Witness ==
  /\ call.op = "int_to_symbol"
  /\ call.n = LastOfLength(MaxBoundaryLetters) + 1
  /\ call.name = Return(Repeat(65, MaxBoundaryLetters + 1))
  /\ call.back = Return(call.n)

\* The grammar of a name: non-empty, at most 26 characters, only A..Z and
\* the spacer, no spacer first, last or next to another, at least one letter.
NameGrammar(s) ==
  /\ s # <<>>
  /\ Len(s) <= 26
  /\ \A i \in 1..Len(s) : s[i] \in 65..90 \/ s[i] = Spacer
  /\ s[1] # Spacer
  /\ s[Len(s)] # Spacer
  /\ \A i \in 1..(Len(s) - 1) : ~(s[i] = Spacer /\ s[i + 1] = Spacer)
  /\ \E i \in 1..Len(s) : s[i] \in 65..90

\* C7: is_valid_glyph_name(s) is true exactly when s matches the grammar;
\* any character outside A..Z and the spacer makes the name invalid.
C7_NameValidity ==
  call.op = "is_valid_glyph_name" => (call.result <=> NameGrammar(call.name))

\* The value of a spacer-free letter sequence, most significant letter first.
RECURSIVE LettersValue(_)
LettersValue(s) ==
  IF s = <<>> THEN 0 ELSE 26 * LettersValue(SubSeq(s, 1, Len(s) - 1)) + (s[Len(s)] - 64)

\* C8: on a valid name symbol_to_int returns the base-26 value of its letters
\* (A = 1 .. Z = 26), spacers ignored; on an invalid name it raises.
C8_SymbolToInt ==
  call.op = "symbol_to_int" =>
    /\ is_valid_glyph_name(call.name) =>
         call.result = Return(LettersValue(SelectSeq(call.name, LAMBDA c : c # Spacer)))
    /\ ~is_valid_glyph_name(call.name) => call.result = Raise("ValueError")
    /\ call.name = <<65>> => call.result = Return(1)
    /\ call.name = <<90>> => call.result = Return(26)
    /\ call.name = <<65, 65>> => call.result = Return(27)
    /\ call.name = <<65, Spacer, 65>> => call.result = Return(27)

\* a name with a spacer was converted, and a rejected name raised
C8_Witness ==
  /\ call.op = "symbol_to_int"
  /\ call.name = <<66, Spacer, 90>>
  /\ call.result = Return(2 * 26 + 26)

(***************************************************************************)
(* Etch payload: composition and parsing                                   *)
(***************************************************************************)
\* str.encode('utf-8') of one code point
utf8_char(cp) ==
  IF cp < 128 THEN <<cp>>
  ELSE IF cp < 2048 THEN <<192 + (cp \div 64), 128 + (cp % 64)>>
  ELSE IF cp < 65536
    THEN <<224 + (cp \div 4096), 128 + ((cp \div 64) % 64), 128 + (cp % 64)>>
  ELSE <<240 + (cp \div 262144), 128 + ((cp \div 4096) % 64),
         128 + ((cp \div 64) % 64), 128 + (cp % 64)>>

RECURSIVE utf8_encode(_)
utf8_encode(s) == IF s = <<>> THEN <<>> ELSE utf8_char(Head(s)) \o utf8_encode(Tail(s))

\* bytes.decode('utf-8') of a slice of at most one byte: a byte above 127
\* is no complete UTF-8 sequence
utf8_decode_byte(b) ==
  IF b = <<>> THEN Return(<<>>)
  ELSE IF b[1] < 128 THEN Return(<<b[1]>>)
  ELSE Raise("UnicodeDecodeError")

OrdC == 67

OrdAmount == 65

OrdS == 83

OrdH == 72

OrdO == 79

OrdF == 70

OrdE == 69

\* if x: glyphstone_data += tag + self.encode_varint(x)
AppendTagged(data, x, tag) ==
  IF ~data.ok \/ ~Truthy(x) THEN data
  ELSE LET e == encode_varint(x[1])
       IN IF e.ok THEN Return(data.val \o tag \o e.val) ELSE e

_add_optional_mint_params(glyphstone_data, symbol, premine, mint_cap, mint_amount, start_height, end_height, start_offset, end_offset) ==
  LET d1 == IF symbol # <<>> THEN Return(glyphstone_data \o utf8_encode(symbol))
            ELSE Return(glyphstone_data)
      d2 == AppendTagged(d1, Some(premine), <<>>)
      d3 == AppendTagged(d2, mint_cap, <<OrdC>>)
      d4 == AppendTagged(d3, mint_amount, <<OrdAmount>>)
      d5 == AppendTagged(d4, start_height, <<OrdS>>)
      d6 == AppendTagged(d5, end_height, <<OrdH>>)
      d7 == AppendTagged(d6, start_offset, <<OrdO>>)
  IN AppendTagged(d7, end_offset, <<OrdF>>)

\* lines 205-213 of etch_glyph: the glyphstone payload of an etch; a is the
\* record of the arguments of etch_glyph
etch_glyphstone_data(a) ==
  LET name_int == symbol_to_int(a.name)
  IN IF ~name_int.ok THEN name_int
     ELSE LET n == encode_varint(name_int.val)
              d == encode_varint(a.divisibility)
          IN IF ~n.ok THEN n
             ELSE IF ~d.ok THEN d
             ELSE _add_optional_mint_params(<<OrdE>> \o n.val \o d.val, a.symbol,
                    a.premine, a.mint_cap, a.mint_amount, a.start_height,
                    a.end_height, a.start_offset, a.end_offset)

\* a glyph_info dict: a key that is absent reads as None, as dict.get does
EmptyGlyphInfo(etch_height) ==
  [etch_height |-> etch_height, minted_count |-> 0,
   name |-> None, divisibility |-> None, symbol |-> None, premine |-> None,
   mint_cap |-> None, mint_amount |-> None, start_height |-> None,
   end_height |-> None, start_offset |-> None, end_offset |-> None]

\* the while loop of decode_glyphstone
RECURSIVE decode_glyphstone_fields(_, _)
decode_glyphstone_fields(data, glyph_info) ==
  IF data = <<>> THEN Return(glyph_info)
  ELSE IF data[1] \notin {OrdC, OrdAmount, OrdS, OrdH, OrdO, OrdF} THEN Return(glyph_info)
  ELSE LET r == Unpack2(decode_varint(Tail(data)))
       IN IF ~r.ok THEN r
          ELSE LET v == Some(r.val[1])
                   rest == r.val[2]
               IN decode_glyphstone_fields(rest,
                    IF data[1] = OrdC THEN [glyph_info EXCEPT !.mint_cap = v]
                    ELSE IF data[1] = OrdAmount THEN [glyph_info EXCEPT !.mint_amount = v]
                    ELSE IF data[1] = OrdS THEN [glyph_info EXCEPT !.start_height = v]
                    ELSE IF data[1] = OrdH THEN [glyph_info EXCEPT !.end_height = v]
                    ELSE IF data[1] = OrdO THEN [glyph_info EXCEPT !.start_offset = v]
                    ELSE [glyph_info EXCEPT !.end_offset = v])

decode_glyphstone(glyphstone_data, etch_height) ==
  IF glyphstone_data = <<>> THEN Raise("IndexError")
  ELSE IF glyphstone_data[1] # OrdE THEN Raise("ValueError")
  ELSE
    LET r1 == Unpack2(decode_varint(Tail(glyphstone_data)))
    IN IF ~r1.ok THEN r1
       ELSE
         LET name == int_to_symbol(r1.val[1])
             r2 == Unpack2(decode_varint(r1.val[2]))
         IN IF ~name.ok THEN name
            ELSE IF ~r2.ok THEN r2
            ELSE
              LET data == r2.val[2]
                  symbol == utf8_decode_byte(SubSeq(data, 1, 1))
                  info == [EmptyGlyphInfo(etch_height) EXCEPT
                             !.name = name.val, !.divisibility = Some(r2.val[1])]
              IN IF data = <<>> THEN Return(info)
                 ELSE IF ~symbol.ok THEN symbol
                 ELSE decode_glyphstone_fields(Tail(data),
                                               [info EXCEPT !.symbol = symbol.val])

(***************************************************************************)
(* Inputs of the etch payload                                              *)
(***************************************************************************)
\* "A" and "B.Z" with a spacer
EtchNames == {<<65>>, <<66, Spacer, 90>>}

\* no symbol, "$", the default U+00A4
EtchSymbols == {<<>>, <<36>>, <<164>>}

\* a field left out, set to 0, set to a value of a two-byte varint
FieldValues == {None, Some(0), Some(1000)}

EtchArgs ==
  [name : EtchNames, divisibility : {2, 8}, symbol : EtchSymbols, premine : {0, 5},
   mint_cap : FieldValues, mint_amount : FieldValues, start_height : FieldValues,
   end_height : FieldValues, start_offset : FieldValues, end_offset : FieldValues]

MaxHeight == 5

(***************************************************************************)
(* The etch payload composed, and parsed back                              *)
(***************************************************************************)
ComposeEtch ==
  /\ call = NoCall
  /\ \E a \in EtchArgs, h \in {1, MaxHeight} :
       LET data == etch_glyphstone_data(a)
       IN /\ call' = [op |-> "etch_payload", args |-> a, etch_height |-> h,
                      payload |-> data,
                      decoded |-> IF data.ok THEN decode_glyphstone(data.val, h) ELSE data]
          /\ UNCHANGED chainVars

NextEtchCodec == ComposeEtch \/ ReturnToCaller

SpecEtchCodec == Init /\ [][NextEtchCodec]_vars

\* varint(x) as the claim writes it
Varint(x) == encode_varint(x).val

TaggedWhenSet(x, tag) == IF IsSet(x) THEN tag \o Varint(x[1]) ELSE <<>>

\* C4: the etch payload is E, varint(name_int), varint(divisibility), the
\* symbol's UTF-8 bytes if there is a symbol, varint(premine) only if
\* premine > 0, then each tagged field in the order C A S H O F exactly when
\* it is set, a field set to 0 included.
C4_EtchComposition ==
  call.op = "etch_payload" =>
    LET a == call.args
    IN call.payload =
         Return(<<OrdE>> \o Varint(symbol_to_int(a.name).val) \o Varint(a.divisibility)
                \o utf8_encode(a.symbol)
                \o (IF a.premine > 0 THEN Varint(a.premine) ELSE <<>>)
                \o TaggedWhenSet(a.mint_cap, <<OrdC>>)
                \o TaggedWhenSet(a.mint_amount, <<OrdAmount>>)
                \o TaggedWhenSet(a.start_height, <<OrdS>>)
                \o TaggedWhenSet(a.end_height, <<OrdH>>)
                \o TaggedWhenSet(a.start_offset, <<OrdO>>)
                \o TaggedWhenSet(a.end_offset, <<OrdF>>))

\* C5: decode_glyphstone of the payload that etch composed returns the
\* name (without spacers), divisibility, symbol, premine and tagged fields
\* that were etched.
C5_EtchRoundTrip ==
  call.op = "etch_payload" =>
    LET a == call.args
        g == call.decoded.val
    IN /\ call.decoded.ok
       /\ g.name = remove_spacers(a.name)
       /\ g.divisibility = Some(a.divisibility)
       /\ g.symbol = a.symbol
       /\ IF a.premine > 0 THEN g.premine = Some(a.premine)
          ELSE g.premine \in {None, Some(0)}
       /\ g.mint_cap = a.mint_cap
       /\ g.mint_amount = a.mint_amount
       /\ g.start_height = a.start_height
       /\ g.end_height = a.end_height
       /\ g.start_offset = a.start_offset
       /\ g.end_offset = a.end_offset

(***************************************************************************)
(* The mint window                                                         *)
(***************************************************************************)
\* float('inf') is None here: an end that is None is never reached
is_mint_open(glyph_info, current_height) ==
  IF Truthy(glyph_info.mint_cap) /\ glyph_info.minted_count >= glyph_info.mint_cap[1]
    THEN FALSE
  ELSE
    LET etch_height == glyph_info.etch_height
        start_height ==
          IF Truthy(glyph_info.start_height) THEN glyph_info.start_height[1]
          ELSE IF Truthy(glyph_info.start_offset)
            THEN etch_height + glyph_info.start_offset[1]
          ELSE 0
        end_height ==
          IF Truthy(glyph_info.end_height) THEN glyph_info.end_height
          ELSE IF Truthy(glyph_info.end_offset)
            THEN Some(etch_height + glyph_info.end_offset[1])
          ELSE None
    IN start_height <= current_height
         /\ (end_height = None \/ current_height < end_height[1])

(***************************************************************************)
(* Inputs of the mint window                                               *)
(***************************************************************************)
MaxWindow == 3

MaxCap == 1

MaxMinted == 1

WindowEtchHeight == 2

\* a bound left out, set to 0, set inside the range of heights
WindowValues == {None, Some(0), Some(1), Some(MaxWindow)}

GlyphInfos ==
  { [EmptyGlyphInfo(WindowEtchHeight) EXCEPT
       !.minted_count = m, !.mint_cap = c, !.start_height = sh, !.end_height = eh,
       !.start_offset = so, !.end_offset = eo] :
      m \in 0..MaxMinted, c \in {None} \cup {Some(k) : k \in 0..MaxCap},
      sh \in WindowValues, eh \in WindowValues,
      so \in WindowValues, eo \in WindowValues }

IsMintOpen ==
  /\ call = NoCall
  /\ \E g \in GlyphInfos, h \in 0..MaxHeight :
       /\ call' = [op |-> "is_mint_open", glyph_info |-> g, current_height |-> h,
                   result |-> is_mint_open(g, h)]
       /\ UNCHANGED chainVars

NextMintWindow == IsMintOpen \/ ReturnToCaller

SpecMintWindow == Init /\ [][NextMintWindow]_vars

\* the start of the window as the claim defines it: start_height when set,
\* else etch_height + start_offset when start_offset is set, else 0
EffectiveStart(g) ==
  IF IsSet(g.start_height) THEN g.start_height[1]
  ELSE IF IsSet(g.start_offset) THEN g.etch_height + g.start_offset[1]
  ELSE 0

\* the end of the window as the claim defines it; None stands for +infinity
EffectiveEnd(g) ==
  IF IsSet(g.end_height) THEN g.end_height
  ELSE IF IsSet(g.end_offset) THEN Some(g.etch_height + g.end_offset[1])
  ELSE None

\* C9: is_mint_open(info, h) is true exactly when effective_start <= h <
\* effective_end and, when mint_cap is set, minted_count < mint_cap; bounds
\* and caps that are set to 0 count as set.
C9_MintWindow ==
  call.op = "is_mint_open" =>
    LET g == call.glyph_info
        h == call.current_height
    IN call.result <=>
         /\ EffectiveStart(g) <= h
         /\ EffectiveEnd(g) = None \/ h < EffectiveEnd(g)[1]
         /\ IsSet(g.mint_cap) => g.minted_count < g.mint_cap[1]

(***************************************************************************)
(* Scripts, outputs and transactions                                       *)
(*                                                                         *)
(* CScript, CTxOut, CTxIn and CTransaction are the containers the code     *)
(* takes them for: a script is its bytes, a transaction is a record whose  *)
(* vout can be appended to and replaced.                                   *)
(***************************************************************************)
COIN == 100000000

OP_RETURN == 106

OP_13 == 93

OP_PUSHDATA1 == 76

\* the bytes CScript gives a pushed byte string
PushData(d) ==
  IF Len(d) < OP_PUSHDATA1 THEN <<Len(d)>> \o d ELSE <<OP_PUSHDATA1, Len(d)>> \o d

CTxOut(nValue, scriptPubKey) == [nValue |-> nValue, scriptPubKey |-> scriptPubKey]

\* an address is a small positive number; its script pays to the 20-byte
\* witness program made of that number
to_scriptPubKey(address) == <<0, 20>> \o [i \in 1..20 |-> address]

create_glyphstone_output(glyphstone_data) ==
  CTxOut(0, <<OP_RETURN, OP_13>> \o PushData(glyphstone_data))

\* is_cenotaph looking at the first opcode alone
is_cenotaph_first_opcode(glyphstone_output) ==
  LET script == glyphstone_output.scriptPubKey
  IN Len(script) < 2 \/ script[1] # OP_RETURN

is_cenotaph(glyphstone_output) ==
  LET script == glyphstone_output.scriptPubKey
  IN Len(script) < 2 \/ script[1] # OP_RETURN \/ script[2] # OP_13

RECURSIVE SumLen(_)
SumLen(outputs) ==
  IF outputs = <<>> THEN 0
  ELSE 8 + 1 + Len(Head(outputs).scriptPubKey) + SumLen(Tail(outputs))

\* len(tx.serialize()): version, input count, 41 bytes for each unsigned
\* input, output count, value + script length + script for each output,
\* lock time
serialized_size(vin, vout) == 4 + 1 + 41 * Len(vin) + 1 + SumLen(vout) + 4

(***************************************************************************)
(* The node, as the calls of one operation see it                          *)
(***************************************************************************)
RECURSIVE Flatten(_)
Flatten(ss) == IF ss = <<>> THEN <<>> ELSE Head(ss) \o Flatten(Tail(ss))

\* signs and sends say whether the node's signrawtransactionwithwallet and
\* sendrawtransaction succeed when this operation calls them
Node(signs, sends) ==
  [utxos |-> wallet, height |-> height, blocks |-> blocks,
   txs |-> Flatten(blocks) \o mempool, next_txid |-> Len(sent) + 1,
   signs |-> signs, sends |-> sends]

\* getrawtransaction(txid)
getrawtransaction(txid, node) ==
  LET found == SelectSeq(node.txs, LAMBDA t : t.txid = txid /\ t.txid # 0)
  IN IF found = <<>> THEN Raise("JSONRPCError") ELSE Return(found[1])

\* the glyphstone data of an output as get_glyph_info and get_glyph_balance
\* read it from the node's JSON: the third part of the asm of a script of
\* type nulldata whose second part is OP_13; None for any other output
GlyphstoneDataOf(output) ==
  LET script == output.scriptPubKey
  IN IF Len(script) > 3 /\ script[1] = OP_RETURN /\ script[2] = OP_13
       THEN Some(SubSeq(script, 4, Len(script)))
     ELSE None

IsNullData(output) ==
  Len(output.scriptPubKey) >= 1 /\ output.scriptPubKey[1] = OP_RETURN

(***************************************************************************)
(* The transaction builder                                                 *)
(***************************************************************************)
\* 0.0001 BTC, in satoshis
BootstrapEstimate == 10000

RECURSIVE select_utxo(_, _)
select_utxo(amount_needed, available_utxos) ==
  IF available_utxos = <<>> THEN Raise("ValueError")
  ELSE IF Head(available_utxos).amount >= amount_needed THEN Return(Head(available_utxos))
  ELSE select_utxo(amount_needed, Tail(available_utxos))

\* txin.prevout.hash.hex() is the hash as the outpoint stores it
get_input_amount(txin, node) ==
  LET transaction == getrawtransaction(txin.txid, node)
  IN IF ~transaction.ok THEN transaction
     ELSE IF txin.vout >= Len(transaction.val.vout) THEN Raise("IndexError")
     ELSE Return(transaction.val.vout[txin.vout + 1].nValue)

\* what a call of the builder leaves behind: its result, the transaction it
\* assembled (None if it got that far not), whether the node signed it and
\* whether the node took it
Outcome(result, tx, signed, taken) ==
  [result |-> result, tx |-> tx, signed |-> signed, taken |-> taken]

\* the outcome together with the calls the builder made to the node to select
\* its input, to sign and to send, in their order, and with the outputs the
\* transaction had before the cenotaph guard
Traced(outcome, calls, provisional) ==
  outcome @@ [calls |-> calls, provisional |-> provisional]

Failed(result) == Traced(Outcome(result, None, FALSE, FALSE), <<>>, <<>>)

\* bytes.fromhex(txid)[::-1] and its inverse: a txid is two bytes
ReverseBytes(txid) == (txid % 256) * 256 + (txid \div 256)

\* the builder sending what the node failed to sign
BroadcastCalls_send_unsigned(live, node) ==
  IF ~live THEN <<>> ELSE <<"signrawtransactionwithwallet", "sendrawtransaction">>

\* the calls to the node of the last lines of the builder: sign, and send
\* if signing did not fail
BroadcastCalls(live, node) ==
  IF ~live THEN <<>>
  ELSE IF node.signs THEN <<"signrawtransactionwithwallet", "sendrawtransaction">>
  ELSE <<"signrawtransactionwithwallet">>

_construct_and_broadcast_transaction(glyphstone_output, destination_output, change_address, fee_per_byte, live, input_txin, node) ==
  LET utxo == select_utxo(BootstrapEstimate, node.utxos)
      amount == get_input_amount(input_txin[1], node)
      input ==
        IF input_txin = None
          THEN IF utxo.ok
                 THEN Return([txin |-> [txid |-> utxo.val.txid, vout |-> utxo.val.vout],
                              input_value |-> utxo.val.amount])
                 ELSE utxo
          ELSE IF amount.ok
                 THEN Return([txin |-> input_txin[1], input_value |-> amount.val])
                 ELSE amount
      selection == IF input_txin = None THEN <<"listunspent">> ELSE <<"getrawtransaction">>
  IN IF ~input.ok THEN Traced(Outcome(input, None, FALSE, FALSE), selection, <<>>)
     ELSE
       LET outputs ==
             <<glyphstone_output>>
               \o (IF destination_output # None THEN destination_output ELSE <<>>)
           tx_size == serialized_size(<<input.val.txin>>, outputs)
           fee == tx_size * fee_per_byte
           change ==
             input.val.input_value
               - (IF destination_output # None THEN destination_output[1].nValue ELSE 0)
               - fee
           with_change ==
             IF change_address # None /\ change > 0
               THEN Append(outputs, CTxOut(change, to_scriptPubKey(change_address[1])))
               ELSE outputs
           vout ==
             IF is_cenotaph(glyphstone_output) THEN <<CTxOut(0, <<OP_RETURN>>)>>
             ELSE with_change
           tx == [txid |-> node.next_txid, vin |-> <<input.val.txin>>, vout |-> vout]
           outcome ==
             IF live
               THEN IF node.signs /\ node.sends
                      THEN Outcome(Return(Some(tx.txid)), Some(tx), TRUE, TRUE)
                      ELSE Outcome(Raise("ValueError"), Some(tx), node.signs, FALSE)
               ELSE Outcome(Return(None), Some(tx), FALSE, FALSE)
       IN Traced(outcome, selection \o BroadcastCalls(live, node), with_change)

_create_glyph_output(amount, divisibility, destination_address) ==
  IF amount > 0
    THEN IF destination_address = None THEN Raise("ValueError")
         ELSE Return(Some(CTxOut(amount * 10^divisibility,
                                 to_scriptPubKey(destination_address[1]))))
    ELSE Return(None)

(***************************************************************************)
(* Etch, mint and transfer                                                 *)
(*                                                                         *)
(* A glyph id "BLOCK:TX" is the record of its two numbers.                 *)
(***************************************************************************)
OrdM == 77

OrdT == 84

\* the destination that transfer_glyph takes for a burn: 'OP_RETURN'
BurnAddress == 0

\* unicodedata.category(c) starts with 'L' or with 'N', for the code points
\* below 256: the digits, the letters of ASCII, and of Latin-1 the ordinal
\* indicators, the micro sign, the superscripts, the fractions and the
\* letters from 192 on other than the signs of multiplication and division
LetterOrNumber(c) ==
  \/ c \in 48..57
  \/ c \in 65..90
  \/ c \in 97..122
  \/ c \in {170, 178, 179, 181, 185, 186, 188, 189, 190}
  \/ c \in (192..255) \ {215, 247}

is_valid_currency_symbol(symbol) ==
  IF Len(symbol) # 1 THEN FALSE ELSE ~LetterOrNumber(symbol[1])

\* a is the record of the arguments of etch_glyph
etch_glyph(a, node) ==
  LET glyphstone_data == etch_glyphstone_data(a)
      destination_output ==
        _create_glyph_output(a.premine, a.divisibility, a.destination_address)
  IN IF ~glyphstone_data.ok THEN Failed(glyphstone_data)
     ELSE IF ~destination_output.ok THEN Failed(destination_output)
     ELSE _construct_and_broadcast_transaction(
            create_glyphstone_output(glyphstone_data.val), destination_output.val,
            a.change_address, a.fee_per_byte, a.live, None, node)

\* the for loop of get_glyph_info: the data of the first output that is
\* nulldata with OP_13 as the second part of its asm
RECURSIVE FirstGlyphstoneData(_)
FirstGlyphstoneData(vout) ==
  IF vout = <<>> THEN None
  ELSE IF GlyphstoneDataOf(Head(vout)) # None THEN GlyphstoneDataOf(Head(vout))
  ELSE FirstGlyphstoneData(Tail(vout))

get_glyph_info(glyph_id, node) ==
  IF glyph_id.block_height > node.height THEN Raise("JSONRPCError")
  ELSE
    LET block == node.blocks[glyph_id.block_height + 1]
    IN IF glyph_id.tx_index >= Len(block) THEN Raise("ValueError")
       ELSE
         LET transaction == block[glyph_id.tx_index + 1]
             glyphstone_data == FirstGlyphstoneData(transaction.vout)
         IN IF glyphstone_data = None THEN Raise("ValueError")
            ELSE decode_glyphstone(glyphstone_data[1], glyph_id.block_height)

\* the glyphstone payload of a mint, lines 264-265
mint_glyphstone_data(glyph_id, amount) ==
  LET b == encode_varint(glyph_id.block_height)
      t == encode_varint(glyph_id.tx_index)
      m == encode_varint(amount)
  IN IF ~b.ok THEN b ELSE IF ~t.ok THEN t ELSE IF ~m.ok THEN m
     ELSE Return(<<OrdM>> \o b.val \o t.val \o m.val)

\* mint_glyph without its look-up of the glyph and without its guards
mint_glyph_unguarded(glyph_id, amount, destination_address, change_address, fee_per_byte, live, node) ==
  LET glyphstone_data == mint_glyphstone_data(glyph_id, amount)
  IN IF ~glyphstone_data.ok THEN Failed(glyphstone_data)
     ELSE _construct_and_broadcast_transaction(
            create_glyphstone_output(glyphstone_data.val),
            Some(CTxOut(amount, to_scriptPubKey(destination_address[1]))),
            change_address, fee_per_byte, live, None, node)

mint_glyph(glyph_id, amount, destination_address, change_address, fee_per_byte, live, node) ==
  LET glyph_info == get_glyph_info(glyph_id, node)
      glyphstone_data == mint_glyphstone_data(glyph_id, amount)
  IN IF ~glyph_info.ok THEN Failed(glyph_info)
     ELSE IF ~is_mint_open(glyph_info.val, node.height) THEN Failed(Raise("ValueError"))
     ELSE IF glyph_info.val.mint_amount = None THEN Failed(Raise("KeyError"))
     ELSE IF Truthy(glyph_info.val.mint_amount) /\ amount # glyph_info.val.mint_amount[1]
       THEN Failed(Raise("ValueError"))
     ELSE IF ~glyphstone_data.ok THEN Failed(glyphstone_data)
     ELSE IF destination_address = None THEN Failed(Raise("TypeError"))
     ELSE _construct_and_broadcast_transaction(
            create_glyphstone_output(glyphstone_data.val),
            Some(CTxOut(amount * 10^(glyph_info.val.divisibility[1]),
                        to_scriptPubKey(destination_address[1]))),
            change_address, fee_per_byte, live, None, node)

decode_glyph_balance(glyphstone_data, glyph_id) ==
  IF glyphstone_data = <<>> THEN Raise("IndexError")
  ELSE IF glyphstone_data[1] # OrdT THEN Raise("ValueError")
  ELSE
    LET r1 == Unpack2(decode_varint(Tail(glyphstone_data)))
    IN IF ~r1.ok THEN r1
       ELSE
         LET r2 == Unpack2(decode_varint(r1.val[2]))
         IN IF ~r2.ok THEN r2
            ELSE IF r1.val[1] # glyph_id.block_height \/ r2.val[1] # glyph_id.tx_index
              THEN Raise("ValueError")
            ELSE LET r3 == Unpack2(decode_varint(r2.val[2]))
                 IN IF ~r3.ok THEN r3 ELSE Return(r3.val[1])

get_glyph_balance(txid, vout, glyph_id, node) ==
  LET raw_tx == getrawtransaction(txid, node)
  IN IF ~raw_tx.ok THEN Raise("ValueError")
     ELSE IF vout >= Len(raw_tx.val.vout) THEN Raise("ValueError")
     ELSE
       LET output == raw_tx.val.vout[vout + 1]
       IN IF ~IsNullData(output) THEN Raise("ValueError")
          ELSE IF GlyphstoneDataOf(output) = None THEN Raise("ValueError")
          ELSE decode_glyph_balance(GlyphstoneDataOf(output)[1], glyph_id)

\* the glyphstone payload of a transfer, lines 316-322
transfer_glyphstone_data(glyph_id, amount) ==
  LET b == encode_varint(glyph_id.block_height)
      t == encode_varint(glyph_id.tx_index)
      m == encode_varint(amount)
      o == encode_varint(1)
  IN IF ~b.ok THEN b ELSE IF ~t.ok THEN t ELSE IF ~m.ok THEN m
     ELSE Return(<<OrdT>> \o b.val \o t.val \o m.val \o o.val)

transfer_glyph(glyph_id, input_txid, input_vout, amount, destination_address, change_address, fee_per_byte, live, node) ==
  LET input_glyphs == get_glyph_balance(input_txid, input_vout, glyph_id, node)
      glyphstone_data == transfer_glyphstone_data(glyph_id, amount)
      txin == [txid |-> ReverseBytes(input_txid), vout |-> input_vout]
      destination_output ==
        IF destination_address = BurnAddress THEN CTxOut(0, <<OP_RETURN>>)
        ELSE CTxOut(amount, to_scriptPubKey(destination_address))
  IN IF ~input_glyphs.ok THEN Failed(input_glyphs)
     ELSE IF input_glyphs.val < amount THEN Failed(Raise("ValueError"))
     ELSE IF ~glyphstone_data.ok THEN Failed(glyphstone_data)
     ELSE _construct_and_broadcast_transaction(
            create_glyphstone_output(glyphstone_data.val), Some(destination_output),
            change_address, fee_per_byte, live, Some(txin), node)

(***************************************************************************)
(* The swap engine of src/htlcSwaps.py                                     *)
(*                                                                         *)
(* A secret is a small number and sha256 an injective map of it to two     *)
(* bytes; a public key in hex is a small number and its compressed form    *)
(* the two bytes 02, number.                                               *)
(***************************************************************************)
OP_DUP == 118

OP_HASH160 == 169

OP_EQUALVERIFY == 136

OP_CHECKSIG == 172

OP_IF == 99

OP_ELSE == 103

OP_CHECKLOCKTIMEVERIFY == 177

OP_DROP == 117

OP_ENDIF == 104

\* the opcode of the hash that initiate_swap applies to the secret
OP_SHA256 == 168

\* hashlib.sha256(secret.encode()).digest()
sha256(secret) == <<(secret * 37) % 256, 255 - secret>>

\* coincurve.PublicKey.from_hex(pubkey).format(compressed=True)
compressed(pubkey) == <<2, pubkey>>

\* proxy.getaddressinfo(address)['pubkey']
getaddressinfo_pubkey(address) == 10 + address

\* proxy.getnewaddress()
getnewaddress == 2

\* the timelock is a parameter that the script does not hold
create_htlc_script(receiver_pubkey, sender_pubkey, secret_hash, timelock) ==
  <<OP_DUP, OP_HASH160>> \o PushData(secret_hash)
    \o <<OP_EQUALVERIFY, OP_CHECKSIG, OP_IF>> \o PushData(receiver_pubkey)
    \o <<OP_ELSE, OP_CHECKLOCKTIMEVERIFY, OP_DROP>> \o PushData(sender_pubkey)
    \o <<OP_ENDIF, OP_CHECKSIG>>

htlcSwaps_is_cenotaph(glyphstone_output) ==
  LET script == glyphstone_output.scriptPubKey
  IN Len(script) < 2 \/ script[1] # OP_RETURN \/ script[2] # OP_13

\* the builder of src/htlcSwaps.py: one output besides the change, and the
\* class has no get_input_amount for an input handed in
htlcSwaps_construct_and_broadcast_transaction(glyphstone_output, change_address, fee_per_byte, live, input_txin, node) ==
  LET utxo == select_utxo(BootstrapEstimate, node.utxos)
  IN IF input_txin # None
       THEN Traced(Outcome(Raise("AttributeError"), None, FALSE, FALSE), <<>>, <<>>)
     ELSE IF ~utxo.ok
       THEN Traced(Outcome(utxo, None, FALSE, FALSE), <<"listunspent">>, <<>>)
     ELSE
       LET txin == [txid |-> utxo.val.txid, vout |-> utxo.val.vout]
           input_value == utxo.val.amount
           outputs == <<glyphstone_output>>
           tx_size == serialized_size(<<txin>>, outputs)
           fee == tx_size * fee_per_byte
           change == input_value - fee
           with_change ==
             IF change_address # None /\ change > 0
               THEN Append(outputs, CTxOut(change, to_scriptPubKey(change_address[1])))
               ELSE outputs
           vout ==
             IF htlcSwaps_is_cenotaph(glyphstone_output) THEN <<CTxOut(0, <<OP_RETURN>>)>>
             ELSE with_change
           tx == [txid |-> node.next_txid, vin |-> <<txin>>, vout |-> vout]
           outcome ==
             IF live
               THEN IF node.signs /\ node.sends
                      THEN Outcome(Return(Some(tx.txid)), Some(tx), TRUE, TRUE)
                      ELSE Outcome(Raise("ValueError"), Some(tx), node.signs, FALSE)
               ELSE Outcome(Return(None), Some(tx), FALSE, FALSE)
       IN Traced(outcome, <<"listunspent">> \o BroadcastCalls(live, node), with_change)

initiate_swap(glyph_id, amount, destination_address, counterparty_pubkey, secret, timelock, node) ==
  LET secret_hash == sha256(secret)
      receiver_pubkey == compressed(counterparty_pubkey)
      sender_pubkey == compressed(getaddressinfo_pubkey(destination_address))
      htlc_script == create_htlc_script(receiver_pubkey, sender_pubkey, secret_hash, timelock)
  IN htlcSwaps_construct_and_broadcast_transaction(
       CTxOut(amount * 10^8, htlc_script), Some(getnewaddress), 1, TRUE, None, node)

\* the timelock that participate_in_swap gives its own HTLC:
\* timelock = counterparty_htlc_details['timelock']
participate_timelock(d) == d.timelock

\* d is the dict counterparty_htlc_details
participate_in_swap(glyph_id, amount, d, destination_address, node) ==
  LET secret_hash == d.secret_hash
      receiver_pubkey == compressed(d.receiver_pubkey)
      sender_pubkey == compressed(getaddressinfo_pubkey(destination_address))
      timelock == participate_timelock(d)
      htlc_script == create_htlc_script(receiver_pubkey, sender_pubkey, secret_hash, timelock)
  IN htlcSwaps_construct_and_broadcast_transaction(
       CTxOut(amount * 10^8, htlc_script), Some(getnewaddress), 1, TRUE, None, node)

\* the body is pass
claim_glyph(htlc_txid, secret, destination_address, node) ==
  Traced(Outcome(Return(None), None, FALSE, FALSE), <<>>, <<>>)

\* the body is pass
refund_glyph(htlc_txid, destination_address, node) ==
  Traced(Outcome(Return(None), None, FALSE, FALSE), <<>>, <<>>)

(***************************************************************************)
(* Inputs of etch, mint and transfer                                       *)
(***************************************************************************)
MaxChainHeight == 2

MaxTxIndex == 1

MintAmount == 10

\* the default divisibility of etch_glyph
DEFAULT_SYMBOL_DIVISIBILITY == 8

\* an etch of "A" with two decimals and the symbol "$", no premine, no mint
\* terms, change to address 2, sent to the node
PlainEtch ==
  [name |-> <<65>>, divisibility |-> 2, symbol |-> <<36>>, premine |-> 0,
   mint_cap |-> None, mint_amount |-> None, start_height |-> None,
   end_height |-> None, start_offset |-> None, end_offset |-> None,
   destination_address |-> None, change_address |-> Some(2), fee_per_byte |-> 1,
   live |-> TRUE]

EtchCalls ==
  { PlainEtch,
    [PlainEtch EXCEPT !.live = FALSE],
    [PlainEtch EXCEPT !.change_address = None],
    [PlainEtch EXCEPT !.premine = 5],
    [PlainEtch EXCEPT !.premine = 5, !.destination_address = Some(1)],
    [PlainEtch EXCEPT !.name = <<97>>],
    [PlainEtch EXCEPT !.symbol = <<65>>],
    [PlainEtch EXCEPT !.symbol = <<36, 36>>],
    [PlainEtch EXCEPT !.divisibility = -1],
    [PlainEtch EXCEPT !.divisibility = DEFAULT_SYMBOL_DIVISIBILITY + 1],
    [PlainEtch EXCEPT !.mint_cap = Some(0)],
    [PlainEtch EXCEPT !.mint_cap = Some(1)],
    [PlainEtch EXCEPT !.mint_cap = Some(1), !.mint_amount = Some(MintAmount)] }

\* glyph ids of the blocks after the first, and of one block the chain has not
GlyphIds == [block_height : {1, MaxChainHeight + 1}, tx_index : 0..MaxTxIndex]

\* the txid of the first transaction sent, and of an output of the wallet
KnownTxids == {1, 101}

(***************************************************************************)
(* The operations against the node                                         *)
(***************************************************************************)
\* what the node keeps of a call: a transaction it took joins the mempool,
\* the output it spends leaves the wallet, and the call joins sent
Broadcast(outcome, entry) ==
  IF outcome.taken
    THEN LET tx == outcome.tx[1]
         IN /\ mempool' = Append(mempool, tx)
            /\ wallet' = SelectSeq(wallet, LAMBDA u :
                           [txid |-> u.txid, vout |-> u.vout] # tx.vin[1])
            /\ sent' = Append(sent, entry @@ [txid |-> tx.txid])
    ELSE UNCHANGED <<mempool, wallet, sent>>

Etch ==
  /\ call = NoCall
  /\ \E a \in EtchCalls, signs \in BOOLEAN, sends \in BOOLEAN :
       LET outcome == etch_glyph(a, Node(signs, sends))
       IN /\ call' = [op |-> "etch_glyph", args |-> a, outcome |-> outcome]
          /\ Broadcast(outcome, [op |-> "etch_glyph", args |-> a])
          /\ UNCHANGED <<height, blocks>>

Mint ==
  /\ call = NoCall
  /\ \E glyph_id \in GlyphIds, amount \in {1, MintAmount}, change_address \in {Some(2)},
        live \in BOOLEAN, signs \in BOOLEAN, sends \in BOOLEAN :
       LET args == [glyph_id |-> glyph_id, amount |-> amount,
                    destination_address |-> Some(1),
                    change_address |-> change_address, fee_per_byte |-> 1,
                    live |-> live]
           outcome == mint_glyph(glyph_id, amount, Some(1), change_address, 1, live,
                                 Node(signs, sends))
       IN /\ call' = [op |-> "mint_glyph", args |-> args, outcome |-> outcome]
          /\ Broadcast(outcome, [op |-> "mint_glyph", args |-> args])
          /\ UNCHANGED <<height, blocks>>

Transfer ==
  /\ call = NoCall
  /\ \E glyph_id \in GlyphIds, input_txid \in KnownTxids, input_vout \in 0..1,
        amount \in {1}, destination_address \in {BurnAddress, 1},
        live \in BOOLEAN, signs \in BOOLEAN, sends \in BOOLEAN :
       LET args == [glyph_id |-> glyph_id, input_txid |-> input_txid,
                    input_vout |-> input_vout, amount |-> amount,
                    destination_address |-> destination_address,
                    change_address |-> Some(2), fee_per_byte |-> 1, live |-> live]
           outcome == transfer_glyph(glyph_id, input_txid, input_vout, amount,
                                     destination_address, Some(2), 1, live,
                                     Node(signs, sends))
       IN /\ call' = [op |-> "transfer_glyph", args |-> args, outcome |-> outcome]
          /\ Broadcast(outcome, [op |-> "transfer_glyph", args |-> args])
          /\ UNCHANGED <<height, blocks>>

\* the swaps are of the glyph of the second transaction of block 1, for one
\* unit, with the counterparty's key 3, to the caller's address 1
SwapGlyphId == [block_height |-> 1, tx_index |-> 1]

Secrets == {1, 2}

\* the block heights of the refund path
Timelocks == {1, 2}

InitiateSwap ==
  /\ call = NoCall
  /\ \E secret \in Secrets, timelock \in Timelocks, signs \in BOOLEAN, sends \in BOOLEAN :
       LET args == [glyph_id |-> SwapGlyphId, amount |-> 1, destination_address |-> 1,
                    counterparty_pubkey |-> 3, secret |-> secret, timelock |-> timelock]
           outcome == initiate_swap(SwapGlyphId, 1, 1, 3, secret, timelock,
                                    Node(signs, sends))
       IN /\ call' = [op |-> "initiate_swap", args |-> args, outcome |-> outcome]
          /\ Broadcast(outcome, [op |-> "initiate_swap", args |-> args])
          /\ UNCHANGED <<height, blocks>>

\* the details of the counterparty's HTLC are what the caller types in
ParticipateInSwap ==
  /\ call = NoCall
  /\ \E secret \in Secrets, timelock \in Timelocks, signs \in BOOLEAN, sends \in BOOLEAN :
       LET d == [secret_hash |-> sha256(secret), receiver_pubkey |-> 3,
                 timelock |-> timelock]
           args == [glyph_id |-> SwapGlyphId, amount |-> 1,
                    counterparty_htlc_details |-> d, destination_address |-> 1]
           outcome == participate_in_swap(SwapGlyphId, 1, d, 1, Node(signs, sends))
       IN /\ call' = [op |-> "participate_in_swap", args |-> args, outcome |-> outcome]
          /\ Broadcast(outcome, [op |-> "participate_in_swap", args |-> args])
          /\ UNCHANGED <<height, blocks>>

ClaimGlyph ==
  /\ call = NoCall
  /\ \E htlc_txid \in KnownTxids, secret \in Secrets :
       LET args == [htlc_txid |-> htlc_txid, secret |-> secret, destination_address |-> 1]
           outcome == claim_glyph(htlc_txid, secret, 1, Node(TRUE, TRUE))
       IN /\ call' = [op |-> "claim_glyph", args |-> args, outcome |-> outcome]
          /\ Broadcast(outcome, [op |-> "claim_glyph", args |-> args])
          /\ UNCHANGED <<height, blocks>>

RefundGlyph ==
  /\ call = NoCall
  /\ \E htlc_txid \in KnownTxids :
       LET args == [htlc_txid |-> htlc_txid, destination_address |-> 1]
           outcome == refund_glyph(htlc_txid, 1, Node(TRUE, TRUE))
       IN /\ call' = [op |-> "refund_glyph", args |-> args, outcome |-> outcome]
          /\ Broadcast(outcome, [op |-> "refund_glyph", args |-> args])
          /\ UNCHANGED <<height, blocks>>

\* the network mines the mempool into the next block, after its coinbase
MineBlock ==
  /\ call = NoCall
  /\ height < MaxChainHeight
  /\ height' = height + 1
  /\ blocks' = Append(blocks, <<Coinbase>> \o mempool)
  /\ mempool' = <<>>
  /\ UNCHANGED <<call, wallet, sent>>

Next ==
  \/ Etch
  \/ Mint
  \/ Transfer
  \/ InitiateSwap
  \/ ParticipateInSwap
  \/ ClaimGlyph
  \/ RefundGlyph
  \/ MineBlock
  \/ ReturnToCaller

Spec == Init /\ [][Next]_vars

\* the accepted etch calls whose transaction the chain holds at glyph_id
EtchesAt(glyph_id) ==
  { i \in 1..Len(sent) :
      /\ sent[i].op = "etch_glyph"
      /\ glyph_id.block_height <= height
      /\ glyph_id.tx_index < Len(blocks[glyph_id.block_height + 1])
      /\ blocks[glyph_id.block_height + 1][glyph_id.tx_index + 1].txid = sent[i].txid }

\* the wallet holds an output the builder can fund a transaction with
Funded == \E i \in 1..Len(wallet) : wallet[i].amount >= BootstrapEstimate

\* the call is a mint, for an amount its terms allow, of a glyph that is
\* etched with no cap, so that its mint is open at every height
MintOfOpenGlyph ==
  /\ call.op = "mint_glyph"
  /\ Funded
  /\ \E i \in EtchesAt(call.args.glyph_id) :
       /\ sent[i].args.mint_cap = None
       /\ sent[i].args.mint_amount \in {None, Some(call.args.amount)}

\* the call is a transfer out of the premine output of the etch of its glyph,
\* of no more than the premine
TransferOfPremine ==
  /\ call.op = "transfer_glyph"
  /\ call.args.input_vout = 1
  /\ \E i \in EtchesAt(call.args.glyph_id) :
       /\ sent[i].txid = call.args.input_txid
       /\ sent[i].args.premine >= call.args.amount

\* the payload of the glyphstone of the transaction the call assembled
PayloadOf(outcome) ==
  IF outcome.tx = None THEN None ELSE GlyphstoneDataOf(outcome.tx[1].vout[1])

\* C6: a mint of glyph (block_height, tx_index) assembles the payload
\* 'M' varint(block_height) varint(tx_index) varint(amount), and a transfer
\* assembles 'T' varint(block_height) varint(tx_index) varint(amount)
\* varint(output_index), output_index being the index of the output that
\* receives the glyphs.
C6_MintTransferComposition ==
  /\ MintOfOpenGlyph =>
       PayloadOf(call.outcome) =
         Some(<<OrdM>> \o Varint(call.args.glyph_id.block_height)
                \o Varint(call.args.glyph_id.tx_index) \o Varint(call.args.amount))
  /\ TransferOfPremine =>
       /\ PayloadOf(call.outcome) =
            Some(<<OrdT>> \o Varint(call.args.glyph_id.block_height)
                   \o Varint(call.args.glyph_id.tx_index)
                   \o Varint(call.args.amount) \o Varint(1))
       /\ call.outcome.tx[1].vout[2].nValue = call.args.amount

\* the mints the node accepted for glyph_id
MintsAccepted(glyph_id) ==
  Cardinality({ i \in 1..Len(sent) :
                  sent[i].op = "mint_glyph" /\ sent[i].args.glyph_id = glyph_id })

EtchedInfo(i, glyph_id) ==
  [EmptyGlyphInfo(glyph_id.block_height) EXCEPT
     !.minted_count = MintsAccepted(glyph_id),
     !.divisibility = Some(sent[i].args.divisibility),
     !.mint_cap = sent[i].args.mint_cap,
     !.mint_amount = sent[i].args.mint_amount,
     !.start_height = sent[i].args.start_height,
     !.end_height = sent[i].args.end_height,
     !.start_offset = sent[i].args.start_offset,
     !.end_offset = sent[i].args.end_offset]

\* the terms of the glyph of info allow a mint of amount at the node's height
MintAllowed(info, amount) ==
  /\ is_mint_open(info, height)
  /\ IsSet(info.mint_amount) => amount = info.mint_amount[1]

\* the call left no transaction: none assembled, none signed, none sent
NothingBuilt(outcome) ==
  /\ ~outcome.result.ok
  /\ outcome.tx = None
  /\ ~outcome.signed
  /\ ~outcome.taken

\* C11: mint_glyph assembles, signs or sends a transaction only when
\* is_mint_open holds for the glyph at the node's height and the amount is the
\* glyph's mint_amount if one is set; otherwise it fails and nothing is signed
\* or sent; a glyph with no mint_amount accepts any amount while its mint is
\* open.
C11_MintGuard ==
  call.op = "mint_glyph" =>
    /\ EtchesAt(call.args.glyph_id) = {} => NothingBuilt(call.outcome)
    /\ \A i \in EtchesAt(call.args.glyph_id) :
         LET info == EtchedInfo(i, call.args.glyph_id)
         IN IF MintAllowed(info, call.args.amount)
              THEN Funded => call.outcome.tx # None
              ELSE NothingBuilt(call.outcome)

\* an input of etch_glyph that fails validation
EtchInputInvalid(a) ==
  \/ ~is_valid_glyph_name(a.name)
  \/ ~is_valid_currency_symbol(a.symbol)
  \/ a.divisibility < 0
  \/ a.divisibility > DEFAULT_SYMBOL_DIVISIBILITY
  \/ (a.premine > 0 /\ a.destination_address = None)

\* C16: etch_glyph fails with an error, and calls the node neither to select
\* inputs nor to sign nor to send, whenever the name is not a valid glyph
\* name, the symbol is not one code point that is neither a letter nor a
\* number, the divisibility is negative or above 8, or there is a premine and
\* no destination address.
C16_EtchValidation ==
  (call.op = "etch_glyph" /\ EtchInputInvalid(call.args)) =>
    /\ ~call.outcome.result.ok
    /\ call.outcome.calls = <<>>
    /\ NothingBuilt(call.outcome)

\* the value of a glyph output: amount * 10^divisibility
GlyphUnits(amount, divisibility) == amount * 10^divisibility

\* C17: the output that carries a glyph balance has the value
\* amount * 10^divisibility, for the divisibility of the glyph concerned, in
\* the premine of an etch, in a mint, in a transfer and in a swap initiation;
\* the destination output of a transfer to the OP_RETURN burn variant has
\* value 0.
C17_GlyphOutputValue ==
  LET a == call.args
      outputs == call.outcome.provisional
  IN (call.op \in {"etch_glyph", "mint_glyph", "transfer_glyph", "initiate_swap"}
        /\ outputs # <<>>) =>
       /\ (call.op = "etch_glyph" /\ a.premine > 0) =>
            outputs[2].nValue = GlyphUnits(a.premine, a.divisibility)
       /\ call.op \in {"mint_glyph", "transfer_glyph", "initiate_swap"} =>
            \A i \in EtchesAt(a.glyph_id) :
              IF call.op = "initiate_swap"
                THEN outputs[1].nValue = GlyphUnits(a.amount, sent[i].args.divisibility)
              ELSE IF call.op = "transfer_glyph" /\ a.destination_address = BurnAddress
                THEN outputs[2].nValue = 0
              ELSE outputs[2].nValue = GlyphUnits(a.amount, sent[i].args.divisibility)

\* the script that create_htlc_script makes of what initiate_swap was given
HtlcScriptOf(a) ==
  create_htlc_script(compressed(a.counterparty_pubkey),
                     compressed(getaddressinfo_pubkey(a.destination_address)),
                     sha256(a.secret), a.timelock)

HasHtlcOutput(tx, script) ==
  \E k \in 1..Len(tx.vout) : tx.vout[k].scriptPubKey = script /\ tx.vout[k].nValue > 0

\* C18: the transaction that initiate_swap signs and sends has an output,
\* carrying the amount, locked by the HTLC script of the hash of the secret,
\* the counterparty's key as receiver, the caller's key as sender and the
\* timelock; the call returns the txid together with the secret hash.
C18_SwapInitiation ==
  (call.op = "initiate_swap" /\ call.outcome.taken) =>
    LET tx == call.outcome.tx[1]
    IN /\ HasHtlcOutput(tx, HtlcScriptOf(call.args))
       /\ call.outcome.result = Return(<<tx.txid, sha256(call.args.secret)>>)

\* a transaction in a block has an output locked by an HTLC of secret_hash
HtlcOnChain(secret_hash) ==
  \E i \in 1..Len(Flatten(blocks)) :
    \E k \in 1..Len(Flatten(blocks)[i].vout) :
      LET script == Flatten(blocks)[i].vout[k].scriptPubKey
      IN /\ Len(script) >= 2 + Len(PushData(secret_hash))
         /\ SubSeq(script, 1, 2 + Len(PushData(secret_hash)))
              = <<OP_DUP, OP_HASH160>> \o PushData(secret_hash)

\* C19: participate_in_swap fails, and publishes nothing, when no HTLC of
\* the counterparty with the same secret hash is on the chain.
C19_SwapParticipation ==
  (call.op = "participate_in_swap"
     /\ ~HtlcOnChain(call.args.counterparty_htlc_details.secret_hash)) =>
    /\ ~call.outcome.result.ok
    /\ ~call.outcome.taken

\* the accepted swap initiations that made the transaction htlc_txid
SwapsAt(htlc_txid) ==
  { i \in 1..Len(sent) : sent[i].op = "initiate_swap" /\ sent[i].txid = htlc_txid }

\* the transaction htlc_txid is in a block
Confirmed(htlc_txid) ==
  \E i \in 1..Len(Flatten(blocks)) : Flatten(blocks)[i].txid = htlc_txid

SpendsHtlc(outcome, htlc_txid) ==
  /\ outcome.tx # None
  /\ \E k \in 1..Len(outcome.tx[1].vin) : outcome.tx[1].vin[k].txid = htlc_txid
  /\ outcome.result = Return(Some(outcome.tx[1].txid))

\* C21: claim_glyph with the secret of an HTLC that initiate_swap made, once
\* the HTLC is in a block and before its timelock, makes the transaction that
\* spends the HTLC and returns its txid; with another preimage it makes no
\* transaction; the script hashes the preimage with the function that
\* initiate_swap hashed the secret with.
C21_ClaimByPreimage ==
  /\ (call.op = "initiate_swap" /\ call.outcome.provisional # <<>>) =>
       call.outcome.provisional[1].scriptPubKey[2] = OP_SHA256
  /\ call.op = "claim_glyph" =>
       \A i \in SwapsAt(call.args.htlc_txid) :
         IF call.args.secret # sent[i].args.secret
           THEN call.outcome.tx = None
         ELSE (Confirmed(call.args.htlc_txid) /\ height < sent[i].args.timelock) =>
                SpendsHtlc(call.outcome, call.args.htlc_txid)

\* the claim of an HTLC in a block, before its timelock, with its secret
ClaimInTime ==
  /\ call.op = "claim_glyph"
  /\ \E i \in SwapsAt(call.args.htlc_txid) :
       /\ call.args.secret = sent[i].args.secret
       /\ Confirmed(call.args.htlc_txid)
       /\ height < sent[i].args.timelock

\* the transactions, in a block or in the mempool, that spend an output of
\* the transaction txid
SpendersOf(txid) ==
  { i \in 1..Len(Flatten(blocks) \o mempool) :
      \E k \in 1..Len((Flatten(blocks) \o mempool)[i].vin) :
        (Flatten(blocks) \o mempool)[i].vin[k].txid = txid }

\* C22: a claim or a refund of an HTLC that was never created or is already
\* spent, and a participation with no HTLC of the counterparty on the chain,
\* fail with an error and publish nothing; the HTLC of every swap
\* transaction is spent at most once.
C22_SwapStateMachine ==
  /\ (/\ call.op \in {"claim_glyph", "refund_glyph"}
      /\ (SwapsAt(call.args.htlc_txid) = {} \/ SpendersOf(call.args.htlc_txid) # {})) =>
       /\ ~call.outcome.result.ok
       /\ call.outcome.tx = None
  /\ (/\ call.op = "participate_in_swap"
      /\ ~HtlcOnChain(call.args.counterparty_htlc_details.secret_hash)) =>
       /\ ~call.outcome.result.ok
       /\ call.outcome.tx = None
  /\ \A i \in 1..Len(sent) :
       sent[i].op \in {"initiate_swap", "participate_in_swap"} =>
         Cardinality(SpendersOf(sent[i].txid)) <= 1

\* the swap operations alone, by parties that keep asking for their claims
\* and refunds, on a network that keeps mining up to MaxChainHeight
NextSwap ==
  \/ InitiateSwap
  \/ ParticipateInSwap
  \/ ClaimGlyph
  \/ RefundGlyph
  \/ MineBlock
  \/ ReturnToCaller

SpecSwap ==
  /\ Init
  /\ [][NextSwap]_vars
  /\ SF_vars(ClaimGlyph)
  /\ SF_vars(RefundGlyph)
  /\ SF_vars(MineBlock)
  /\ WF_vars(ReturnToCaller)

\* C23: the HTLC of every swap transaction that was accepted is eventually
\* spent, redeemed by the claim of the counterparty or, once the timelock has
\* passed, refunded to the party that waits.
C23_SwapCompletion ==
  \A t \in KnownTxids : [](SwapsAt(t) # {} => <>(SpendersOf(t) # {}))

\* the accepted calls of op that name the HTLC transaction htlc_txid
SpentBy(op, htlc_txid) ==
  { k \in 1..Len(sent) : sent[k].op = op /\ sent[k].args.htlc_txid = htlc_txid }

\* sent[j] is the participation that mirrors the initiation sent[i]
Mirrors(i, j) ==
  /\ sent[i].op = "initiate_swap"
  /\ sent[j].op = "participate_in_swap"
  /\ sent[j].args.counterparty_htlc_details.secret_hash = sha256(sent[i].args.secret)
  /\ sent[j].args.counterparty_htlc_details.timelock = sent[i].args.timelock

\* C28: in a swap made of an initiation and the participation that mirrors
\* it, no party has both redeemed the HTLC of the other and refunded its own;
\* the timelock of the participant's HTLC is earlier than the initiator's, so
\* that after the initiator's claim the participant has a block height left
\* to claim at before the initiator can refund.
C28_SwapAtomicity ==
  \A i \in 1..Len(sent), j \in 1..Len(sent) :
    Mirrors(i, j) =>
      /\ ~(SpentBy("claim_glyph", sent[j].txid) # {}
             /\ SpentBy("refund_glyph", sent[i].txid) # {})
      /\ ~(SpentBy("claim_glyph", sent[i].txid) # {}
             /\ SpentBy("refund_glyph", sent[j].txid) # {})
      /\ participate_timelock(sent[j].args.counterparty_htlc_details)
           < sent[i].args.timelock

\* C20: refund_glyph of an HTLC with timelock T makes no transaction while
\* the node's height is below T + 1, and from height T + 1 on it makes the
\* transaction that spends the HTLC.
C20_RefundTiming ==
  call.op = "refund_glyph" =>
    \A i \in SwapsAt(call.args.htlc_txid) :
      IF height < sent[i].args.timelock + 1
        THEN call.outcome.tx = None
        ELSE /\ call.outcome.tx # None
             /\ \E k \in 1..Len(call.outcome.tx[1].vin) :
                  call.outcome.tx[1].vin[k].txid = call.args.htlc_txid

(***************************************************************************)
(* The transaction builder called with the outputs its callers hand it,    *)
(* and with glyphstone outputs that are malformed                          *)
(***************************************************************************)
OP_12 == 92

HighFeeRate == 250

GlyphValue == 500

\* a well-formed glyphstone output, and malformed ones: no marker, another
\* marker, the two opcodes swapped, an empty script
GlyphstoneOutputs ==
  { create_glyphstone_output(<<OrdE, 1, 2>>),
    CTxOut(0, <<OP_RETURN>>),
    CTxOut(0, <<OP_RETURN, OP_12, 3, OrdE, 1, 2>>),
    CTxOut(0, <<OP_13, OP_RETURN, 3, OrdE, 1, 2>>),
    CTxOut(0, <<>>) }

PlainBuild ==
  [glyphstone_output |-> create_glyphstone_output(<<OrdE, 1, 2>>),
   destination_output |-> Some(CTxOut(GlyphValue, to_scriptPubKey(1))),
   change_address |-> Some(2), fee_per_byte |-> 1, live |-> TRUE,
   input_txin |-> None]

\* the outpoint (txid, n) as transfer_glyph hands it to the builder
OutPoint(txid, n) == [txid |-> ReverseBytes(txid), vout |-> n]

BuilderCalls ==
  { [PlainBuild EXCEPT !.glyphstone_output = g, !.destination_output = d,
                       !.change_address = c] :
      g \in GlyphstoneOutputs,
      d \in {None, PlainBuild.destination_output}, c \in {None, Some(2)} }
  \cup
  { [PlainBuild EXCEPT !.fee_per_byte = HighFeeRate, !.destination_output = d,
                       !.change_address = c] :
      d \in {None, PlainBuild.destination_output}, c \in {None, Some(2)} }
  \cup
  { [PlainBuild EXCEPT !.live = FALSE, !.glyphstone_output = g] :
      g \in {PlainBuild.glyphstone_output, CTxOut(0, <<OP_RETURN>>)} }
  \cup
  { [PlainBuild EXCEPT !.input_txin = Some(OutPoint(1, 0)), !.live = l] :
      l \in BOOLEAN }

\* a call of the builder; listunspent is the wallet as the call found it
ConstructAndBroadcast ==
  /\ call = NoCall
  /\ \E a \in BuilderCalls, signs \in BOOLEAN, sends \in BOOLEAN :
       LET outcome ==
             _construct_and_broadcast_transaction(a.glyphstone_output,
               a.destination_output, a.change_address, a.fee_per_byte, a.live,
               a.input_txin, Node(signs, sends))
       IN /\ call' = [op |-> "_construct_and_broadcast_transaction", args |-> a,
                      listunspent |-> wallet, signs |-> signs, sends |-> sends,
                      outcome |-> outcome]
          /\ Broadcast(outcome, [op |-> "_construct_and_broadcast_transaction"])
          /\ UNCHANGED <<height, blocks>>

\* the output that initiate_swap and participate_in_swap hand to their
\* builder for one glyph, with the change address and the flags they give
PlainSwapBuild ==
  [glyphstone_output |->
     CTxOut(10^8, create_htlc_script(compressed(21), compressed(11), sha256(1), 1)),
   destination_output |-> None, change_address |-> Some(getnewaddress),
   fee_per_byte |-> 1, live |-> TRUE, input_txin |-> None]

SwapBuilderCalls ==
  { [PlainSwapBuild EXCEPT !.change_address = c, !.live = l] :
      c \in {None, Some(getnewaddress)}, l \in BOOLEAN }

\* a call of the builder of src/htlcSwaps.py
SwapConstructAndBroadcast ==
  /\ call = NoCall
  /\ \E a \in SwapBuilderCalls, signs \in BOOLEAN, sends \in BOOLEAN :
       LET outcome ==
             htlcSwaps_construct_and_broadcast_transaction(a.glyphstone_output,
               a.change_address, a.fee_per_byte, a.live, a.input_txin,
               Node(signs, sends))
       IN /\ call' = [op |-> "htlcSwaps._construct_and_broadcast_transaction",
                      args |-> a, listunspent |-> wallet, signs |-> signs,
                      sends |-> sends, outcome |-> outcome]
          /\ Broadcast(outcome, [op |-> "htlcSwaps._construct_and_broadcast_transaction"])
          /\ UNCHANGED <<height, blocks>>

NextBuilder == ConstructAndBroadcast \/ SwapConstructAndBroadcast \/ ReturnToCaller

SpecBuilder == Init /\ [][NextBuilder]_vars

BurnOnly == <<CTxOut(0, <<OP_RETURN>>)>>

\* the script begins with exactly the two magic opcodes
BeginsWithMagic(script) ==
  Len(script) >= 2 /\ script[1] = OP_RETURN /\ script[2] = OP_13

\* C12: the transaction the builder returns or sends has the zero-value
\* OP_RETURN burn output as its only output, whatever the destination and the
\* change address, if and only if the script of the glyphstone output does
\* not begin with OP_RETURN OP_13; when it does, the glyphstone, destination
\* and change outputs are kept.
C12_CenotaphGuard ==
  (call.op = "_construct_and_broadcast_transaction" /\ call.outcome.tx # None) =>
    LET tx == call.outcome.tx[1]
    IN /\ tx.vout = BurnOnly
            <=> ~BeginsWithMagic(call.args.glyphstone_output.scriptPubKey)
       /\ BeginsWithMagic(call.args.glyphstone_output.scriptPubKey)
            => tx.vout = call.outcome.provisional

\* a malformed glyphstone output given with a destination and a change
\* address: the transaction sent to the node burns
C12_Witness ==
  /\ call.op = "_construct_and_broadcast_transaction"
  /\ call.args.glyphstone_output = CTxOut(0, <<OP_RETURN, OP_12, 3, OrdE, 1, 2>>)
  /\ call.args.destination_output # None
  /\ call.args.change_address # None
  /\ call.outcome.taken
  /\ call.outcome.tx[1].vout = BurnOnly
  /\ Len(call.outcome.provisional) = 3

BuilderOps ==
  {"_construct_and_broadcast_transaction", "htlcSwaps._construct_and_broadcast_transaction"}

\* the outputs the caller gave the builder: every output but the change
NonChangeOutputs(a) ==
  <<a.glyphstone_output>>
    \o (IF a.destination_output # None THEN a.destination_output ELSE <<>>)

RECURSIVE SumValues(_)
SumValues(outputs) ==
  IF outputs = <<>> THEN 0 ELSE Head(outputs).nValue + SumValues(Tail(outputs))

\* the value of the wallet output that the transaction spends
WalletValueOf(txin, utxos) ==
  LET found == SelectSeq(utxos, LAMBDA u : u.txid = txin.txid /\ u.vout = txin.vout)
  IN found[1].amount

\* C13: the fee is the serialized size of the provisional transaction times
\* the fee rate; with a change address the builder appends a change output of
\* input_value - (sum of the non-change outputs) - fee exactly when that is
\* strictly positive, and none otherwise; for the token builder and for the
\* swap builder, whose HTLC output counts among the non-change outputs.
C13_FeeAndChange ==
  (call.op \in BuilderOps /\ call.outcome.tx # None /\ call.args.input_txin = None) =>
    LET a == call.args
        vin == call.outcome.tx[1].vin
        fee == serialized_size(vin, NonChangeOutputs(a)) * a.fee_per_byte
        change ==
          WalletValueOf(vin[1], call.listunspent) - SumValues(NonChangeOutputs(a)) - fee
    IN call.outcome.provisional =
         IF a.change_address # None /\ change > 0
           THEN Append(NonChangeOutputs(a),
                       CTxOut(change, to_scriptPubKey(a.change_address[1])))
           ELSE NonChangeOutputs(a)

\* the wallet outputs that reach the bootstrap estimate of 0.0001 BTC
Eligible(utxos) == SelectSeq(utxos, LAMBDA u : u.amount >= BootstrapEstimate)

\* the outpoint, built from a txid as transfer_glyph builds it, names an
\* output of a transaction that the node knows
OutpointKnown(txin) ==
  \E i \in 1..Len(Flatten(blocks) \o mempool) :
    LET t == (Flatten(blocks) \o mempool)[i]
    IN t.txid # 0 /\ t.txid = ReverseBytes(txin.txid) /\ txin.vout < Len(t.vout)

\* the fee the builder computes for the input it selects from the wallet
ComputedFee(a, utxo) ==
  serialized_size(<<[txid |-> utxo.txid, vout |-> utxo.vout]>>, NonChangeOutputs(a))
    * a.fee_per_byte

\* C29: every transaction that the token builder or the swap builder returns
\* or sends has (sum of its output values) + fee <= input value; when the
\* input selected cannot cover the destination or HTLC output value plus the
\* fee, the call fails and makes no transaction.
C29_ValueConservation ==
  (call.op \in BuilderOps /\ call.args.input_txin = None
     /\ Eligible(call.listunspent) # <<>>) =>
    LET utxo == Eligible(call.listunspent)[1]
        fee == ComputedFee(call.args, utxo)
    IN IF SumValues(NonChangeOutputs(call.args)) + fee > utxo.amount
         THEN NothingBuilt(call.outcome)
         ELSE call.outcome.tx # None =>
                /\ SumValues(call.outcome.tx[1].vout) + fee <= utxo.amount
                /\ SumValues(call.outcome.provisional) + fee <= utxo.amount

SignAndSend(calls) ==
  SelectSeq(calls, LAMBDA c :
    c \in {"signrawtransactionwithwallet", "sendrawtransaction"})

\* C14: with no input override the builder spends the first output of
\* listunspent, in the node's order, that holds at least 0.0001 BTC; with an
\* override it spends that outpoint and does not consult the wallet; when no
\* output reaches the threshold the call fails with an error and nothing is
\* signed or sent.
C14_UtxoSelection ==
  call.op = "_construct_and_broadcast_transaction" =>
    LET o == call.outcome
        first == Eligible(call.listunspent)[1]
    IN IF call.args.input_txin # None
         THEN /\ \A i \in 1..Len(o.calls) : o.calls[i] # "listunspent"
              /\ OutpointKnown(call.args.input_txin[1]) =>
                   o.tx # None /\ o.tx[1].vin = <<call.args.input_txin[1]>>
       ELSE IF Eligible(call.listunspent) # <<>>
         THEN /\ o.tx # None
              /\ o.tx[1].vin = <<[txid |-> first.txid, vout |-> first.vout]>>
       ELSE /\ o.result = Raise("ValueError")
            /\ NothingBuilt(o)
            /\ SignAndSend(o.calls) = <<>>

\* what the builder does to sign and send, and what it returns when it is
\* asked to: sign, then send what was signed, and return the txid
SignsThenSends ==
  LET o == call.outcome
  IN /\ SignAndSend(o.calls) =
          IF call.signs THEN <<"signrawtransactionwithwallet", "sendrawtransaction">>
          ELSE <<"signrawtransactionwithwallet">>
     /\ o.signed = call.signs
     /\ o.taken = (call.signs /\ call.sends)
     /\ o.result = IF call.signs /\ call.sends THEN Return(Some(o.tx[1].txid))
                   ELSE Raise("ValueError")

NeitherSignsNorSends ==
  /\ SignAndSend(call.outcome.calls) = <<>>
  /\ ~call.outcome.signed
  /\ ~call.outcome.taken

\* C15: when live is true the builder calls the node's sign and then its send
\* on the signed result and returns the txid; when it is false it makes no
\* sign and no send call and returns the unsigned transaction; when signing
\* fails send is never called.
C15_BroadcastFlag ==
  (call.op \in BuilderOps /\ call.outcome.tx # None) =>
    IF call.args.live THEN SignsThenSends
    ELSE NeitherSignsNorSends /\ call.outcome.result = Return(call.outcome.tx)

\* C15 as amended: when live is false the builder makes no sign and no send
\* call and returns None, the unsigned transaction being only displayed.
C15_BroadcastFlagNone ==
  (call.op \in BuilderOps /\ call.outcome.tx # None) =>
    IF call.args.live THEN SignsThenSends
    ELSE NeitherSignsNorSends /\ call.outcome.result = Return(None)

\* the node fails to sign what the builder was asked to send: send is not
\* called
C15_Witness ==
  /\ call.op \in BuilderOps
  /\ call.args.live
  /\ ~call.signs
  /\ call.sends
  /\ call.outcome.tx # None
  /\ call.outcome.calls = <<"listunspent", "signrawtransactionwithwallet">>
  /\ ~call.outcome.result.ok

(***************************************************************************)
(* The HTLC script run against a witness                                   *)
(*                                                                         *)
(* The script of create_htlc_script is the scriptPubKey of the output, so  *)
(* the items that the spender pushes are the stack it starts on.  The      *)
(* opcodes act as the network's interpreter runs them.  A public key is    *)
(* compressed(k), the signature of its owner is Signature(k).              *)
(***************************************************************************)
RECURSIVE HashFold(_, _)
HashFold(x, h) ==
  IF x = <<>> THEN h ELSE HashFold(Tail(x), (h * 31 + Head(x) + 1) % 65521)

\* OP_HASH160: a digest that is shorter than that of sha256
hash160(x) == <<HashFold(x, 7) \div 256, HashFold(x, 7) % 256, 160>>

Signature(key) == <<48, key>>

\* OP_CHECKSIG: the item is a public key and the signature is its owner's
CheckSig(sig, pubkey) ==
  Len(pubkey) = 2 /\ pubkey[1] = 2 /\ sig = Signature(pubkey[2])

CastToBool(item) == \E k \in 1..Len(item) : item[k] # 0

IsScriptNum(item) == item = <<>> \/ (Len(item) = 1 /\ item[1] < 128)

ScriptNum(item) == IF item = <<>> THEN 0 ELSE item[1]

\* every enclosing OP_IF branch is the one taken
Executing(cond) == \A k \in 1..Len(cond) : cond[k]

\* the script from position pc on, on the stack (its top is its last item),
\* for a spending transaction of lock time nLockTime
RECURSIVE EvalScript(_, _, _, _, _)
EvalScript(script, pc, stack, cond, nLockTime) ==
  IF pc > Len(script)
    THEN cond = <<>> /\ stack # <<>> /\ CastToBool(stack[Len(stack)])
  ELSE
    LET op == script[pc]
        n == Len(stack)
        Next1(s, c) == EvalScript(script, pc + 1, s, c, nLockTime)
    IN IF op \in 1..(OP_PUSHDATA1 - 1)
         THEN /\ pc + op <= Len(script)
              /\ EvalScript(script, pc + 1 + op,
                   IF Executing(cond) THEN Append(stack, SubSeq(script, pc + 1, pc + op))
                   ELSE stack,
                   cond, nLockTime)
       ELSE IF op = OP_IF
         THEN IF Executing(cond)
                THEN n >= 1 /\ Next1(SubSeq(stack, 1, n - 1),
                                     Append(cond, CastToBool(stack[n])))
                ELSE Next1(stack, Append(cond, FALSE))
       ELSE IF op = OP_ELSE
         THEN cond # <<>> /\ Next1(stack, [cond EXCEPT ![Len(cond)] = ~@])
       ELSE IF op = OP_ENDIF
         THEN cond # <<>> /\ Next1(stack, SubSeq(cond, 1, Len(cond) - 1))
       ELSE IF ~Executing(cond) THEN Next1(stack, cond)
       ELSE IF op = OP_DUP
         THEN n >= 1 /\ Next1(Append(stack, stack[n]), cond)
       ELSE IF op = OP_HASH160
         THEN n >= 1 /\ Next1(Append(SubSeq(stack, 1, n - 1), hash160(stack[n])), cond)
       ELSE IF op = OP_EQUALVERIFY
         THEN n >= 2 /\ stack[n] = stack[n - 1] /\ Next1(SubSeq(stack, 1, n - 2), cond)
       ELSE IF op = OP_CHECKSIG
         THEN n >= 2 /\ Next1(Append(SubSeq(stack, 1, n - 2),
                                IF CheckSig(stack[n - 1], stack[n]) THEN <<1>> ELSE <<>>),
                              cond)
       ELSE IF op = OP_CHECKLOCKTIMEVERIFY
         THEN /\ n >= 1
              /\ IsScriptNum(stack[n])
              /\ ScriptNum(stack[n]) <= nLockTime
              /\ Next1(stack, cond)
       ELSE IF op = OP_DROP
         THEN n >= 1 /\ Next1(SubSeq(stack, 1, n - 1), cond)
       ELSE FALSE

\* the keys of the receiver, of the sender and of a third party
ReceiverKey == 3

SenderKey == 11

OtherKey == 5

\* the timelock that create_htlc_script is given
ScriptTimelock == 2

MaxWitnessLen == 4

MaxLockTime == 2

MaxSpendHeight == 3

\* what a spender can push: the three signatures, the third key, the empty
\* item (zero, false, no signature) and the number after the timelock
WitnessItems ==
  {Signature(ReceiverKey), Signature(SenderKey), Signature(OtherKey),
   compressed(OtherKey), <<>>, <<ScriptTimelock + 1>>}

Witnesses == SeqsUpTo(WitnessItems, MaxWitnessLen)

\* the hash that initiate_swap commits, and the hash of an item as
\* participate_in_swap may be handed it
SecretHashes == {sha256(1), hash160(compressed(OtherKey))}

\* a transaction of lock time nLockTime, in a block at the height at, spends
\* the HTLC output with the witness
SpendHtlc ==
  /\ call = NoCall
  /\ \E secret_hash \in SecretHashes, witness \in Witnesses,
        nLockTime \in 0..MaxLockTime, at \in 1..MaxSpendHeight :
       LET script == create_htlc_script(compressed(ReceiverKey), compressed(SenderKey),
                                        secret_hash, ScriptTimelock)
       IN /\ call' = [op |-> "spend_htlc", secret_hash |-> secret_hash,
                      witness |-> witness, nLockTime |-> nLockTime, height |-> at,
                      accepted |-> nLockTime < at
                                     /\ EvalScript(script, 1, witness, <<>>, nLockTime)]
          /\ UNCHANGED chainVars

NextScript == SpendHtlc \/ ReturnToCaller

SpecScript == Init /\ [][NextScript]_vars

HasItem(witness, item) == \E k \in 1..Len(witness) : witness[k] = item

RevealsPreimage(witness, secret_hash) ==
  \E k \in 1..Len(witness) : hash160(witness[k]) = secret_hash

\* C24: the script accepts a witness only by one of its two paths: with the
\* signature of the receiver and a preimage of secret_hash, and not the
\* signature of the sender; or with the signature of the sender, without the
\* preimage, at a height after the timelock.
C24_HtlcExclusivity ==
  (call.op = "spend_htlc" /\ call.accepted) =>
    \/ /\ HasItem(call.witness, Signature(ReceiverKey))
       /\ RevealsPreimage(call.witness, call.secret_hash)
       /\ ~HasItem(call.witness, Signature(SenderKey))
    \/ /\ HasItem(call.witness, Signature(SenderKey))
       /\ ~RevealsPreimage(call.witness, call.secret_hash)
       /\ call.height > ScriptTimelock

(***************************************************************************)
(* The varint codec applied to its inputs                                  *)
(***************************************************************************)
\* decode_varint(encode_varint(n))
VarintRoundTrip ==
  /\ call = NoCall
  /\ \E n \in VarintInputs :
       /\ call' = [op |-> "varint_roundtrip", n |-> n,
                   encoded |-> encode_varint(n).val,
                   decoded |-> decode_varint(encode_varint(n).val)]
       /\ UNCHANGED chainVars

\* decode_varint(encode_varint(a) ++ encode_varint(b)), and a second read
\* by a caller that chains: value, data = decode_varint(data)
VarintFraming ==
  /\ call = NoCall
  /\ \E a \in FramingInputs, b \in FramingInputs :
       LET stream == encode_varint(a).val \o encode_varint(b).val
           first == decode_varint(stream)
           chained == Unpack2(first)
       IN /\ call' = [op |-> "varint_framing", a |-> a, b |-> b, stream |-> stream,
                      first |-> first, chained |-> chained,
                      second |-> IF chained.ok THEN Return(decode_varint(chained.val[2]))
                                 ELSE chained]
          /\ UNCHANGED chainVars

EncodeVarint ==
  /\ call = NoCall
  /\ \E n \in VarintInputs \cup ((-MaxNegative)..(-1)) :
       /\ call' = [op |-> "encode_varint", n |-> n, result |-> encode_varint(n)]
       /\ UNCHANGED chainVars

DecodeVarint ==
  /\ call = NoCall
  /\ \E encoded \in DecodeInputs :
       /\ call' = [op |-> "decode_varint", encoded |-> encoded,
                   result |-> decode_varint(encoded)]
       /\ UNCHANGED chainVars

NextVarint ==
  \/ VarintRoundTrip
  \/ VarintFraming
  \/ EncodeVarint
  \/ DecodeVarint
  \/ ReturnToCaller

SpecVarint == Init /\ [][NextVarint]_vars

\* the number of base-128 digits of n, at least one
RECURSIVE Base128Len(_)
Base128Len(n) == IF n < 128 THEN 1 ELSE 1 + Base128Len(n \div 128)

\* the k-th base-128 digit of n, the least significant being the first
Base128Digit(n, k) == (n \div 128^(k - 1)) % 128

\* C25: encode_varint(n) for n >= 0 is the base-128 digits of n, least
\* significant first, one per byte, with the high bit set on every byte but
\* the last, so that 0 is 00, 127 is 7F, 128 is 80 01 and 300 is AC 02; for
\* n < 0 it raises an error and returns no bytes.
C25_VarintFormat ==
  call.op = "encode_varint" =>
    IF call.n < 0 THEN call.result = Raise("ValueError")
    ELSE /\ call.result.ok
         /\ Len(call.result.val) = Base128Len(call.n)
         /\ \A k \in 1..Len(call.result.val) :
              call.result.val[k] =
                Base128Digit(call.n, k) + (IF k < Len(call.result.val) THEN 128 ELSE 0)
         /\ call.n = 0 => call.result.val = <<0>>
         /\ call.n = 127 => call.result.val = <<127>>
         /\ call.n = 128 => call.result.val = <<128, 1>>
         /\ call.n = 300 => call.result.val = <<172, 2>>

\* 127, the largest value of one byte, is encoded as 7F
C25_Witness ==
  call.op = "encode_varint" /\ call.n = 127 /\ call.result = Return(<<127>>)

\* the byte string ends while the continuation bit of its last byte is set,
\* or is empty
EndsInContinuation(encoded) ==
  \A k \in 1..Len(encoded) : BitAnd(encoded[k], 128) # 0

\* C26: decode_varint returns no value, and fails, on every byte string
\* that ends while the continuation bit is still set, the empty string
\* included.
C26_Truncation ==
  (call.op = "decode_varint" /\ EndsInContinuation(call.encoded)) =>
    call.result.type \notin {"int", "tuple"}

\* C1: for every n in the checked range, decode_varint(encode_varint(n)) is
\* the pair (n, empty tail).
C1_RoundTripPair ==
  call.op = "varint_roundtrip" => call.decoded = PyTuple(<<call.n, <<>>>>)

\* What the code does instead: the integer n alone comes back.
C1_RoundTripValue ==
  call.op = "varint_roundtrip" => call.decoded = PyInt(call.n)

\* C2: decoding encode(a) ++ encode(b) yields a together with the unread
\* tail, and decoding that tail yields b.
C2_Framing ==
  call.op = "varint_framing" =>
    /\ call.first = PyTuple(<<call.a, encode_varint(call.b).val>>)
    /\ call.second.ok
    /\ call.second.val.value[1] = call.b

\* What the code does instead: the value a comes back without a tail, and a
\* caller that unpacks (value, tail) gets a TypeError.
C2_NoTail ==
  call.op = "varint_framing" =>
    /\ call.first = PyInt(call.a)
    /\ call.chained = Raise("TypeError")
====
